---- MODULE Spec2Model ----
(***************************************************************************)
(* State-machine model of the DCGAN training loop of src/dcgan.py (main).  *)
(*                                                                         *)
(* Tensors are abstracted as follows.                                      *)
(*  - A latent tensor is represented by one of its components (every       *)
(*    operation main applies to latents is element-wise), held in a        *)
(*    1-tuple; the empty tuple <<>> stands for "not yet assigned".         *)
(*  - Real numbers are exact rationals <<n, d>> in lowest terms, d > 0.    *)
(*  - Network parameters are version counters: an optimizer step yields a  *)
(*    new version, nothing else writes them.                               *)
(*  - A gradient buffer is the set of backward contributions accumulated   *)
(*    in it, each tagged <<iteration, loss>>.                              *)
(***************************************************************************)
EXTENDS Integers, Sequences, FiniteSets, TLC

VARIABLES
    pc,                 \* position of main's control
    num_epochs,         \* args.num_epochs
    nbatches,           \* len(dataloader): batches yielded per epoch
    epoch,              \* loop variable of line 71
    i,                  \* loop variable of line 73
    iters,              \* global iteration counter (line 68, 171)
    paramsD,            \* version of netD.parameters()
    paramsG,            \* version of netG.parameters()
    gradD,              \* accumulated .grad of netD's parameters
    gradG,              \* accumulated .grad of netG's parameters
    modeD,              \* netD.training
    modeG,              \* netG.training
    label,              \* fill value of the label tensor, <<>> before line 92
    sigma1,             \* std of noise_1 (line 93)
    sigma2,             \* std of noise_2 (line 112)
    fakeMode,           \* netG.training when fake_images was computed (line 107)
    fixed_noise,        \* line 44
    z_1,                \* line 57
    z_2,                \* line 58
    interp_i,           \* loop variable of line 60
    fixed_interpolate,  \* list of lines 59-63, tensor after line 64
    interp_ready,       \* TRUE once line 64 has run
    writes,             \* save_image calls so far, in order
    nprints,            \* number of metric lines printed
    phases              \* training phases executed in the current iteration

vars == <<pc, num_epochs, nbatches, epoch, i, iters, paramsD, paramsG, gradD,
          gradG, modeD, modeG, label, sigma1, sigma2, fakeMode, fixed_noise,
          z_1, z_2, interp_i, fixed_interpolate, interp_ready, writes,
          nprints, phases>>

----------------------------------------------------------------------------
(* Bounds of the model *)

MaxEpochs == 3

MaxBatches == 500

\* values a sampled latent component may take
ZVals == {-1, 2}

\* len(dataloader) values explored; 0 is a dataset smaller than one batch
\* (drop_last=True)
BatchCounts == {0, 1, 2, MaxBatches}

----------------------------------------------------------------------------
(* Program constants *)

InterpSteps == 64

InterpDenom == 63

ReportEvery == 50

VisEvery == 1000

NameWidth == 7

real_labels == 1

fake_labels == 0

----------------------------------------------------------------------------
(* Exact rational arithmetic *)

Abs(x) == IF x < 0 THEN -x ELSE x

RECURSIVE GCD(_, _)
GCD(a, b) == IF b = 0 THEN a ELSE GCD(b, a % b)

\* n/d in lowest terms with a positive denominator (d # 0)
Rat(n, d) ==
    LET s == IF d < 0 THEN -1 ELSE 1
        g == GCD(Abs(n), Abs(d))
    IN  <<(s * n) \div g, (s * d) \div g>>

RatInt(n) == <<n, 1>>

RatAdd(p, q) == Rat(p[1] * q[2] + q[1] * p[2], p[2] * q[2])

RatSub(p, q) == Rat(p[1] * q[2] - q[1] * p[2], p[2] * q[2])

RatMul(p, q) == Rat(p[1] * q[1], p[2] * q[2])

RatDiv(p, q) == Rat(p[1] * q[2], p[2] * q[1])

RatLess(p, q) == p[1] * q[2] < q[1] * p[2]

----------------------------------------------------------------------------
(* Pure computations of main *)

\* line 93 and line 112: 0.1 * (args.num_epochs - epoch) / args.num_epochs
Sigma_LastEpochZero(e, total) ==
    RatDiv(RatMul(Rat(1, 10), RatInt(total - 1 - e)), RatInt(total))

Sigma_Growing(e, total) ==
    RatDiv(RatMul(Rat(1, 10), RatInt(e)), RatInt(total))

Sigma(e, total) ==
    RatDiv(RatMul(Rat(1, 10), RatInt(total - e)), RatInt(total))

\* line 61: lambda_interp = i / 63
Lambda_Off(k) == Rat(k, InterpDenom + 1)

Lambda(k) == Rat(k, InterpDenom)

\* line 62: z_1 * (1 - lambda_interp) + lambda_interp * z_2
ZInterp(a, b, k) ==
    RatAdd(RatMul(RatInt(a), RatSub(RatInt(1), Lambda(k))),
           RatMul(Lambda(k), RatInt(b)))

\* str(n) as a sequence of decimal digits (n >= 0)
RECURSIVE Str(_)
Str(n) == IF n < 10 THEN <<n>> ELSE Append(Str(n \div 10), n % 10)

\* str.zfill(w): left-pad with zeros up to width w, never truncate
Zfill(s, w) ==
    IF Len(s) >= w THEN s ELSE [k \in 1..(w - Len(s)) |-> 0] \o s

\* line 164 / 168: str(iters).zfill(7) + '.png'
FileName_NoPad(n) == Str(n)

FileName(n) == Zfill(Str(n), NameWidth)

\* line 156: iters % 1000 == 0
ShouldVisualize_SkipZero(n) == n % VisEvery = 0 /\ n > 0

ShouldVisualize(n) == n % VisEvery = 0

\* line 151: iters % 50 == 0
ShouldReport(n) == n % ReportEvery = 0

\* Module.zero_grad(): every accumulated contribution is dropped
ZeroGrad_Keep(g) == g

ZeroGrad(g) == {}

\* Tensor.backward(): the contribution is added to what is already there
Accumulate(g, n, loss) == g \cup {<<n, loss>>}

----------------------------------------------------------------------------
(* Initial state: main has been called, nothing has run *)

Init ==
    /\ pc = "setup"
    /\ num_epochs \in 1..MaxEpochs
    /\ nbatches \in BatchCounts
    /\ epoch = 0
    /\ i = 0
    /\ iters = 0
    /\ paramsD = 0
    /\ paramsG = 0
    /\ gradD = {}
    /\ gradG = {}
    /\ modeD = "train"
    /\ modeG = "train"
    /\ label = <<>>
    /\ sigma1 = <<>>
    /\ sigma2 = <<>>
    /\ fakeMode = "none"
    /\ fixed_noise = <<>>
    /\ z_1 = <<>>
    /\ z_2 = <<>>
    /\ interp_i = 0
    /\ fixed_interpolate = <<>>
    /\ interp_ready = FALSE
    /\ writes = <<>>
    /\ nprints = 0
    /\ phases = <<>>

training == <<epoch, i, iters, paramsD, paramsG, gradD, gradG, modeD, modeG,
              label, sigma1, sigma2, fakeMode, phases>>

artifacts == <<fixed_noise, z_1, z_2, interp_i, fixed_interpolate, interp_ready>>

config == <<num_epochs, nbatches>>

outputs == <<writes, nprints>>

----------------------------------------------------------------------------
(* Set-up, lines 30-68 *)

\* lines 31-52: networks built and initialised, fixed_noise sampled,
\* optimizers built
Setup ==
    /\ pc = "setup"
    /\ \E v \in ZVals : fixed_noise' = <<v>>
    /\ pc' = "sample_z"
    /\ UNCHANGED <<training, config, outputs, z_1, z_2, interp_i,
                   fixed_interpolate, interp_ready>>

\* lines 57-59
SampleZ ==
    /\ pc = "sample_z"
    /\ \E a \in ZVals, b \in ZVals : z_1' = <<a>> /\ z_2' = <<b>>
    /\ fixed_interpolate' = <<>>
    /\ interp_i' = 0
    /\ pc' = "interp_loop"
    /\ UNCHANGED <<training, config, outputs, fixed_noise, interp_ready>>

\* lines 60-63: one pass of the for loop, or its exit
InterpLoop ==
    /\ pc = "interp_loop"
    /\ IF interp_i < InterpSteps
       THEN /\ fixed_interpolate' =
                   Append(fixed_interpolate, ZInterp(z_1[1], z_2[1], interp_i))
            /\ interp_i' = interp_i + 1
            /\ pc' = "interp_loop"
       ELSE /\ pc' = "interp_cat"
            /\ UNCHANGED <<fixed_interpolate, interp_i>>
    /\ UNCHANGED <<training, config, outputs, fixed_noise, z_1, z_2, interp_ready>>

\* line 64 (torch.cat keeps the entries and their order) and line 68
InterpCat ==
    /\ pc = "interp_cat"
    /\ interp_ready' = TRUE
    /\ iters' = 0
    /\ pc' = "epoch_head"
    /\ UNCHANGED <<epoch, i, paramsD, paramsG, gradD, gradG, modeD, modeG,
                   label, sigma1, sigma2, fakeMode, phases, config, outputs,
                   fixed_noise, z_1, z_2, interp_i, fixed_interpolate>>

----------------------------------------------------------------------------
(* Loop headers, lines 71 and 73 *)

\* line 71: for epoch in range(args.num_epochs); epoch holds the next value
EpochHead ==
    /\ pc = "epoch_head"
    /\ IF epoch < num_epochs
       THEN i' = 0 /\ pc' = "batch_head"
       ELSE i' = i /\ pc' = "done"
    /\ UNCHANGED <<epoch, iters, paramsD, paramsG, gradD, gradG, modeD, modeG,
                   label, sigma1, sigma2, fakeMode, phases, config, outputs,
                   artifacts>>

\* line 73: for i, data in enumerate(dataloader, 0)
BatchHead ==
    /\ pc = "batch_head"
    /\ IF i < nbatches
       THEN /\ pc' = "d_zero"
            /\ phases' = <<>>
            /\ epoch' = epoch
       ELSE /\ pc' = "epoch_head"
            /\ epoch' = epoch + 1
            /\ phases' = phases
    /\ UNCHANGED <<i, iters, paramsD, paramsG, gradD, gradG, modeD, modeG,
                   label, sigma1, sigma2, fakeMode, config, outputs, artifacts>>

----------------------------------------------------------------------------
(* One training iteration, lines 87-171 *)

\* lines 88-89
NetDZeroGrad ==
    /\ pc = "d_zero"
    /\ modeD' = "train"
    /\ gradD' = ZeroGrad(gradD)
    /\ phases' = Append(phases, "zeroD")
    /\ pc' = "d_real"
    /\ UNCHANGED <<epoch, i, iters, paramsD, paramsG, gradG, modeG, label,
                   sigma1, sigma2, fakeMode, config, outputs, artifacts>>

\* lines 90-101
DRealBackward ==
    /\ pc = "d_real"
    /\ label' = <<real_labels>>
    /\ sigma1' = Sigma(epoch, num_epochs)
    /\ gradD' = Accumulate(gradD, iters, "errD_real")
    /\ phases' = Append(phases, "backD_real")
    /\ pc' = "d_fake"
    /\ UNCHANGED <<epoch, i, iters, paramsD, paramsG, gradG, modeD, modeG,
                   sigma2, fakeMode, config, outputs, artifacts>>

\* lines 105-121: fake_images is detached, so only netD receives gradient
DFakeBackward ==
    /\ pc = "d_fake"
    /\ fakeMode' = modeG
    /\ label' = <<fake_labels>>
    /\ sigma2' = Sigma(epoch, num_epochs)
    /\ gradD' = Accumulate(gradD, iters, "errD_fake")
    /\ phases' = Append(phases, "backD_fake")
    /\ pc' = "d_step"
    /\ UNCHANGED <<epoch, i, iters, paramsD, paramsG, gradG, modeD, modeG,
                   sigma1, config, outputs, artifacts>>

\* line 124
NetDStep_Skipped ==
    /\ pc = "d_step"
    /\ pc' = "g_zero"
    /\ UNCHANGED <<epoch, i, iters, paramsD, paramsG, gradD, gradG, modeD, modeG,
                   label, sigma1, sigma2, fakeMode, phases, config, outputs,
                   artifacts>>

NetDStep ==
    /\ pc = "d_step"
    /\ paramsD' = paramsD + 1
    /\ phases' = Append(phases, "stepD")
    /\ pc' = "g_zero"
    /\ UNCHANGED <<epoch, i, iters, paramsG, gradD, gradG, modeD, modeG, label,
                   sigma1, sigma2, fakeMode, config, outputs, artifacts>>

\* lines 133-134
NetGZeroGrad ==
    /\ pc = "g_zero"
    /\ modeG' = "train"
    /\ gradG' = ZeroGrad(gradG)
    /\ phases' = Append(phases, "zeroG")
    /\ pc' = "g_back"
    /\ UNCHANGED <<epoch, i, iters, paramsD, paramsG, gradD, modeD, label,
                   sigma1, sigma2, fakeMode, config, outputs, artifacts>>

\* lines 137-145: errG flows through netD into netG, both buffers accumulate
GBackward ==
    /\ pc = "g_back"
    /\ label' = <<real_labels>>
    /\ gradG' = Accumulate(gradG, iters, "errG")
    /\ gradD' = Accumulate(gradD, iters, "errG")
    /\ phases' = Append(phases, "backG")
    /\ pc' = "g_step"
    /\ UNCHANGED <<epoch, i, iters, paramsD, paramsG, modeD, modeG, sigma1,
                   sigma2, fakeMode, config, outputs, artifacts>>

\* line 148
NetGStep_Both ==
    /\ pc = "g_step"
    /\ paramsG' = paramsG + 1
    /\ paramsD' = paramsD + 1
    /\ phases' = Append(phases, "stepG")
    /\ pc' = "report"
    /\ UNCHANGED <<epoch, i, iters, gradD, gradG, modeD, modeG, label,
                   sigma1, sigma2, fakeMode, config, outputs, artifacts>>

NetGStep ==
    /\ pc = "g_step"
    /\ paramsG' = paramsG + 1
    /\ phases' = Append(phases, "stepG")
    /\ pc' = "report"
    /\ UNCHANGED <<epoch, i, iters, paramsD, gradD, gradG, modeD, modeG, label,
                   sigma1, sigma2, fakeMode, config, outputs, artifacts>>

\* lines 151-153
Report ==
    /\ pc = "report"
    /\ nprints' = IF ShouldReport(iters) THEN nprints + 1 ELSE nprints
    /\ pc' = "visualize"
    /\ UNCHANGED <<training, config, artifacts, writes>>

\* lines 156-169
Visualize_Resample ==
    /\ pc = "visualize"
    /\ IF ShouldVisualize(iters)
       THEN /\ modeG' = "eval"
            /\ \E v \in ZVals : fixed_noise' = <<v>>
            /\ writes' = writes \o
                 << [dir |-> "out", name |-> FileName(iters), iter |-> iters,
                     input |-> fixed_noise', gen |-> paramsG],
                    [dir |-> "interpolate", name |-> FileName(iters),
                     iter |-> iters, input |-> fixed_interpolate,
                     gen |-> paramsG] >>
       ELSE UNCHANGED <<modeG, writes, fixed_noise>>
    /\ pc' = "incr"
    /\ UNCHANGED <<epoch, i, iters, paramsD, paramsG, gradD, gradG, modeD,
                   label, sigma1, sigma2, fakeMode, phases, config, nprints,
                   z_1, z_2, interp_i, fixed_interpolate, interp_ready>>

Visualize ==
    /\ pc = "visualize"
    /\ IF ShouldVisualize(iters)
       THEN /\ modeG' = "eval"
            /\ writes' = writes \o
                 << [dir |-> "out", name |-> FileName(iters), iter |-> iters,
                     input |-> fixed_noise, gen |-> paramsG],
                    [dir |-> "interpolate", name |-> FileName(iters),
                     iter |-> iters, input |-> fixed_interpolate,
                     gen |-> paramsG] >>
       ELSE UNCHANGED <<modeG, writes>>
    /\ pc' = "incr"
    /\ UNCHANGED <<epoch, i, iters, paramsD, paramsG, gradD, gradG, modeD,
                   label, sigma1, sigma2, fakeMode, phases, config, nprints,
                   artifacts>>

\* line 171, and the advance of enumerate
IterIncr ==
    /\ pc = "incr"
    /\ iters' = iters + 1
    /\ i' = i + 1
    /\ pc' = "batch_head"
    /\ UNCHANGED <<epoch, paramsD, paramsG, gradD, gradG, modeD, modeG, label,
                   sigma1, sigma2, fakeMode, phases, config, outputs, artifacts>>

Next ==
    \/ Setup
    \/ SampleZ
    \/ InterpLoop
    \/ InterpCat
    \/ EpochHead
    \/ BatchHead
    \/ NetDZeroGrad
    \/ DRealBackward
    \/ DFakeBackward
    \/ NetDStep
    \/ NetGZeroGrad
    \/ GBackward
    \/ NetGStep
    \/ Report
    \/ Visualize
    \/ IterIncr

Spec == Init /\ [][Next]_vars

\* Lines 30-68 alone: main up to the first test of the epoch loop
NextSetup ==
    \/ Setup
    \/ SampleZ
    \/ InterpLoop
    \/ InterpCat

SetupSpec == Init /\ [][NextSetup]_vars

----------------------------------------------------------------------------
(* Auxiliary definitions for the properties *)

SetupPcs == {"setup", "sample_z", "interp_loop", "interp_cat"}

IterPcs == {"d_zero", "d_real", "d_fake", "d_step", "g_zero", "g_back",
            "g_step", "report", "visualize", "incr"}

PhaseOrder == <<"zeroD", "backD_real", "backD_fake", "stepD", "zeroG",
                "backG", "stepG">>

IsPrefix(s, t) == Len(s) <= Len(t) /\ \A k \in 1..Len(s) : s[k] = t[k]

Zero == <<0, 1>>

\* value of a sequence of decimal digits
RECURSIVE DigitsValue(_)
DigitsValue(s) ==
    IF Len(s) = 0 THEN 0
    ELSE 10 * DigitsValue(SubSeq(s, 1, Len(s) - 1)) + s[Len(s)]

\* number of iterations whose visualization test (line 156) has been executed
Decided == IF pc = "incr" THEN iters + 1 ELSE iters

CeilDiv(a, b) == (a + b - 1) \div b

\* steps left in the current iteration, the step at pc included
PcRank ==
    CASE pc = "d_zero" -> 10
      [] pc = "d_real" -> 9
      [] pc = "d_fake" -> 8
      [] pc = "d_step" -> 7
      [] pc = "g_zero" -> 6
      [] pc = "g_back" -> 5
      [] pc = "g_step" -> 4
      [] pc = "report" -> 3
      [] pc = "visualize" -> 2
      [] pc = "incr" -> 1
      [] OTHER -> 0

\* steps of one pass of the batch loop, and of one epoch
IterCost == Cardinality(IterPcs) + 1

EpochCost == nbatches * IterCost + 2

\* number of steps main still has to take before it returns
Rank ==
    CASE pc = "done" -> 0
      [] pc = "epoch_head" -> (num_epochs - epoch) * EpochCost + 1
      [] pc = "batch_head" ->
            (num_epochs - epoch - 1) * EpochCost + (nbatches - i) * IterCost + 2
      [] pc \in IterPcs ->
            (num_epochs - epoch - 1) * EpochCost
               + (nbatches - i - 1) * IterCost + 2 + PcRank
      [] pc = "interp_cat" -> num_epochs * EpochCost + 2
      [] pc = "interp_loop" ->
            num_epochs * EpochCost + 3 + (InterpSteps - interp_i)
      [] pc = "sample_z" -> num_epochs * EpochCost + 4 + InterpSteps
      [] pc = "setup" -> num_epochs * EpochCost + 5 + InterpSteps

FilesIn(d) == Cardinality({k \in 1..Len(writes) : writes[k].dir = d})

----------------------------------------------------------------------------
(* Properties *)

\* C1: within every iteration the phases run in the order zero D gradients,
\* D-real backward, D-fake backward, D optimizer step, zero G gradients,
\* G backward, G optimizer step, with nothing interleaved; each iteration
\* makes exactly one D step and one G step, the D step first.
C1_PhaseOrder ==
    /\ IsPrefix(phases, PhaseOrder)
    /\ pc = "d_zero" => phases = <<>>
    /\ pc = "d_real" => phases = SubSeq(PhaseOrder, 1, 1)
    /\ pc = "d_fake" => phases = SubSeq(PhaseOrder, 1, 2)
    /\ pc = "d_step" => phases = SubSeq(PhaseOrder, 1, 3)
    /\ pc = "g_zero" => phases = SubSeq(PhaseOrder, 1, 4)
    /\ pc = "g_back" => phases = SubSeq(PhaseOrder, 1, 5)
    /\ pc = "g_step" => phases = SubSeq(PhaseOrder, 1, 6)
    /\ pc \in {"report", "visualize", "incr"} => phases = PhaseOrder
    /\ paramsD = iters + (IF pc \in IterPcs /\ Len(phases) >= 4 THEN 1 ELSE 0)
    /\ paramsG = iters + (IF pc \in IterPcs /\ Len(phases) >= 7 THEN 1 ELSE 0)
    /\ paramsG <= paramsD

C1_Witness == pc = "incr" /\ iters = 1 /\ phases = PhaseOrder /\ paramsG = 2

\* C2: when the D optimizer steps, netD's gradient buffer holds exactly the
\* D-real and D-fake contributions of the current iteration; the errG
\* contribution the previous iteration left on netD is still there when the
\* iteration starts and is gone before the step.
C2_DStepGradient ==
    /\ pc = "d_step" =>
          gradD = {<<iters, "errD_real">>, <<iters, "errD_fake">>}
    /\ pc = "d_zero" /\ iters > 0 => <<iters - 1, "errG">> \in gradD
    /\ pc = "g_step" => gradG = {<<iters, "errG">>}

C2_Witness ==
    /\ pc = "d_step"
    /\ epoch = 1
    /\ iters >= 2
    /\ gradD = {<<iters, "errD_real">>, <<iters, "errD_fake">>}

\* C3: netD's parameters change only in the D optimizer step and netG's only
\* in the G optimizer step; the G-step phases leave netD's parameters alone
\* and the D phases leave netG's alone.
C3_ParamFrame ==
    [][ /\ (paramsD' # paramsD => pc = "d_step")
        /\ (paramsG' # paramsG => pc = "g_step")
        /\ (pc \in {"g_zero", "g_back", "g_step"} => paramsD' = paramsD)
        /\ (pc \in {"d_zero", "d_real", "d_fake", "d_step"} =>
               paramsG' = paramsG) ]_vars

C3_Witness == pc = "report" /\ paramsD = 2 /\ paramsG = 2 /\ gradD # {}

\* C4: sigma(e) = 0.1*(total - e)/total is non-negative and strictly
\* decreasing on 0..total and is 0 at e = total; both noise tensors of an
\* iteration, in every iteration of an epoch, use sigma(epoch).
C4_SigmaShape ==
    /\ \A e \in 0..num_epochs : ~RatLess(Sigma(e, num_epochs), Zero)
    /\ \A e \in 0..(num_epochs - 1) :
          RatLess(Sigma(e + 1, num_epochs), Sigma(e, num_epochs))
    /\ Sigma(num_epochs, num_epochs) = Zero
    /\ \A e \in 0..num_epochs :
          Sigma(e, num_epochs) = Rat(num_epochs - e, 10 * num_epochs)
    /\ pc \in (IterPcs \ {"d_zero", "d_real"}) =>
          sigma1 = Rat(num_epochs - epoch, 10 * num_epochs)
    /\ pc \in (IterPcs \ {"d_zero", "d_real", "d_fake"}) => sigma2 = sigma1

C4_Witness ==
    /\ pc = "g_back"
    /\ epoch = 1
    /\ i = 1
    /\ num_epochs = 3
    /\ sigma1 = Rat(1, 15)
    /\ sigma2 = sigma1

\* C5 as stated: at the end of training the applied sigma is 0.
C5_Original ==
    pc = "done" /\ iters > 0 => sigma1 = Zero /\ sigma2 = Zero

\* C5 as amended: the applied sigma starts at 0.1 in the first epoch, drops by
\* 0.1/num_epochs per epoch, is strictly positive whenever it is applied, and
\* in the last trained epoch is 0.1/num_epochs, not 0.
C5_Amended ==
    /\ pc \in (IterPcs \ {"d_zero", "d_real", "d_fake"}) =>
          /\ sigma1 = RatSub(Rat(1, 10),
                             RatMul(RatInt(epoch), Rat(1, 10 * num_epochs)))
          /\ sigma2 = sigma1
          /\ RatLess(Zero, sigma1)
          /\ epoch = 0 => sigma1 = Rat(1, 10)
    /\ pc = "done" /\ iters > 0 =>
          /\ sigma1 = Rat(1, 10 * num_epochs)
          /\ sigma2 = Rat(1, 10 * num_epochs)

C5_Witness ==
    pc = "done" /\ iters > 0 /\ num_epochs = 3 /\ sigma2 = Rat(1, 30)

\* C6: the interpolation path has 64 entries, entry k being
\* z1*(1 - k/63) + (k/63)*z2 for k = 0..63 in order; entry 0 is z1, entry 63
\* is z2, and the blend factors increase strictly in steps of 1/63.
C6_InterpolationPath ==
    /\ pc = "interp_loop" => Len(fixed_interpolate) = interp_i
    /\ interp_ready =>
          /\ Len(fixed_interpolate) = InterpSteps
          /\ \A k \in 0..(InterpSteps - 1) :
                fixed_interpolate[k + 1] =
                    Rat(z_1[1] * (63 - k) + k * z_2[1], 63)
          /\ fixed_interpolate[1] = RatInt(z_1[1])
          /\ fixed_interpolate[InterpSteps] = RatInt(z_2[1])
          /\ \A k \in 0..(InterpSteps - 2) :
                /\ RatLess(Lambda(k), Lambda(k + 1))
                /\ RatSub(Lambda(k + 1), Lambda(k)) = Rat(1, 63)
                /\ RatSub(fixed_interpolate[k + 2], fixed_interpolate[k + 1])
                      = Rat(z_2[1] - z_1[1], 63)
          /\ Lambda(0) = Zero
          /\ Lambda(InterpSteps - 1) = RatInt(1)

C6_Witness ==
    /\ interp_ready
    /\ z_1 # z_2
    /\ Len(fixed_interpolate) = 64
    /\ fixed_interpolate[64] = RatInt(z_2[1])

\* C7: fixed_noise and fixed_interpolate are written only during set-up,
\* before any training step, each from its unassigned state, and never
\* afterwards; every visualization feeds the generator these two artifacts.
C7_ArtifactsFixed ==
    [][ /\ (fixed_noise' # fixed_noise => pc = "setup" /\ fixed_noise = <<>>)
        /\ (fixed_interpolate' # fixed_interpolate =>
               pc = "interp_loop" /\ ~interp_ready)
        /\ (interp_ready => interp_ready')
        /\ (pc \in SetupPcs => iters = 0 /\ paramsD = 0 /\ paramsG = 0)
        /\ \A k \in 1..Len(writes') :
              writes'[k].input = IF writes'[k].dir = "out"
                                 THEN fixed_noise'
                                 ELSE fixed_interpolate'
        /\ \A k \in 1..Len(writes') : \A m \in 1..Len(writes') :
              writes'[k].dir = writes'[m].dir =>
                  writes'[k].input = writes'[m].input ]_vars

C7_Witness ==
    /\ Len(writes) = 4
    /\ writes[1].input = writes[3].input
    /\ writes[2].input = writes[4].input
    /\ paramsG > 1000

\* C8: an iteration renders a visualization iff the global counter (from 0,
\* +1 per batch, not reset between epochs) is a multiple of 1000; each
\* rendering writes one file in out/ and one in interpolate/, both named by
\* the counter zero-padded to 7 digits, after that iteration's G step; no
\* file name is written twice in a directory.
C8_Visualization ==
    /\ pc \in (IterPcs \cup {"batch_head"}) => iters = epoch * nbatches + i
    /\ Len(writes) = 2 * Cardinality({n \in 0..(Decided - 1) : n % 1000 = 0})
    /\ \A j \in 1..(Len(writes) \div 2) :
          /\ writes[2 * j - 1].dir = "out"
          /\ writes[2 * j].dir = "interpolate"
          /\ \A k \in {2 * j - 1, 2 * j} :
                /\ writes[k].iter = 1000 * (j - 1)
                /\ Len(writes[k].name) = 7
                /\ DigitsValue(writes[k].name) = writes[k].iter
                /\ writes[k].gen = writes[k].iter + 1
    /\ \A k \in 1..Len(writes) : \A m \in 1..Len(writes) :
          k # m /\ writes[k].dir = writes[m].dir =>
              writes[k].name # writes[m].name

C8_Witness ==
    /\ Len(writes) = 4
    /\ writes[3].name = <<0, 0, 0, 1, 0, 0, 0>>
    /\ writes[4].name = <<0, 0, 0, 1, 0, 0, 0>>
    /\ writes[1].name = <<0, 0, 0, 0, 0, 0, 0>>

\* C9 as stated: a finished run has made E*B iterations and has written 2
\* files per artifact type if E*B >= 1000 and 0 otherwise.
C9_Original ==
    pc = "done" =>
        /\ iters = num_epochs * nbatches
        /\ FilesIn("out") = (IF num_epochs * nbatches >= 1000 THEN 2 ELSE 0)
        /\ FilesIn("interpolate") =
              (IF num_epochs * nbatches >= 1000 THEN 2 ELSE 0)

\* C9 as amended: the run ends (every step of main lowers the number of
\* steps left, which is never negative and is 0 only on return), after
\* exactly E*B iterations, and has then written ceil(E*B/1000) files per
\* artifact type: one for each multiple of 1000 in 0..E*B-1, iteration 0
\* included.
C9_Amended ==
    /\ [][Rank' < Rank]_vars
    /\ [](/\ Rank >= 0
          /\ (Rank = 0 <=> pc = "done")
          /\ iters <= num_epochs * nbatches
          /\ pc = "done" =>
                /\ iters = num_epochs * nbatches
                /\ FilesIn("out") = CeilDiv(num_epochs * nbatches, 1000)
                /\ FilesIn("interpolate") =
                      CeilDiv(num_epochs * nbatches, 1000))

C9_Witness ==
    /\ pc = "done"
    /\ num_epochs = 2
    /\ nbatches = 1
    /\ iters = 2
    /\ FilesIn("out") = 1
    /\ FilesIn("interpolate") = 1

\* C10: whenever an iteration computes its fake batch (line 107), netG is in
\* training mode.
C10_FakeInTrainMode == fakeMode \in {"none", "train"}

====
